---- MODULE Spec2Model ----
(***************************************************************************)
(* A model of the immcache disk cache engine (DiskCache, diskTee,          *)
(* diskFile, the eviction routine) and of its reference LRU index.         *)
(*                                                                         *)
(* Callers are sequential processes: each one calls GetOrLoad, reads the   *)
(* stream it obtained (possibly not to the end), closes it, and starts     *)
(* over.  The eviction routine is one more process.  The mutex c.mu is a   *)
(* variable; every step that the code performs under the mutex requires    *)
(* it.  File-system operations act on the variables files and tmps.        *)
(***************************************************************************)
EXTENDS Integers, Sequences, FiniteSets, TLC

\* ---------------------------------------------------------------- bounds

\* number of concurrent callers (goroutines calling GetOrLoad)
NumCallers == 2
\* total number of GetOrLoad calls started in one behaviour
MaxCalls == 3
\* the same, in the behaviours where every call asks for the same key
MaxCallsOneKey == 4
\* the same, in the behaviours checked for liveness
MaxCallsBudget == 2
\* the same, in the behaviours with PurgeAndClose and failures of init
MaxCallsPurge == 2
\* the positive disk budget used when a budget is configured
MaxBudget == 2
EvictBudget == 1
\* the clock advances by ClockStep seconds per tick, up to MaxNow
ClockStep == 30
MaxNow == 30
\* the same, in the behaviours where the writes to a temporary file can fail
MaxCallsWrite == 2
\* number of operations applied to an index used on its own
MaxLruOps == 6

\* ------------------------------------------------------ program constants

defaultEvictionPeriodMin == 30
\* the emergency ratio 1.5, in tenths
defaultEvictionEmergencyRatio == 15
\* lifecycle states
inited == 1
closed == 2

\* ------------------------------------------------------------- universes

Callers == 1..NumCallers
Keys == {"k1", "k2"}
\* the keys of an index used on its own
LruKeys == {"k1", "k2", "k3"}
\* the byte strings a loader can produce
Contents == {<<1>>, <<1, 2>>}
\* a path that holds no file
NoFile == <<-1>>
\* the lock holder id of the eviction routine (0 is "unlocked")
EvId == -1
\* a declared size that the admission control of getOrLoad refuses
BigSize == 10 * (MaxBudget + 1)

Min(a, b) == IF a < b THEN a ELSE b

\* ------------------------------------------------------------ the digest

HashBase == 3
\* hash.Hash: New, then Write byte after byte, then Sum
hashNew == 0
hashWrite(h, b) == h * HashBase + b
RECURSIVE hashSum(_)
hashSum(s) == IF s = <<>> THEN hashNew
              ELSE hashWrite(hashSum(SubSeq(s, 1, Len(s) - 1)), s[Len(s)])

\* the canonical path of a digest: base / first hex chars / remaining chars
getFilename(base, sum) == <<base, sum \div HashBase, sum % HashBase>>

\* ---------------------------------------------------------- the LRU index
\* The list is a sequence whose head is the front (most recently used).

IndexOf(l, key) == IF \E i \in 1..Len(l) : l[i].k = key
                   THEN CHOOSE i \in 1..Len(l) : l[i].k = key
                   ELSE 0

MoveToFront(l, i) == <<l[i]>> \o SubSeq(l, 1, i - 1) \o SubSeq(l, i + 1, Len(l))

\* LRU.Set: a key already present is only moved to the front
LRUSet(l, key, value) ==
    IF IndexOf(l, key) > 0
    THEN MoveToFront(l, IndexOf(l, key))
    ELSE <<[k |-> key, sum |-> value.sum, size |-> value.size]>> \o l

\* a Get that leaves the list as it is
LRUGetNoMove(l, key) == l

\* LRU.Get: the list after the lookup
LRUGet(l, key) ==
    IF IndexOf(l, key) > 0 THEN MoveToFront(l, IndexOf(l, key)) ELSE l

LRUHas(l, key) == IndexOf(l, key) > 0

LRUValue(l, key) == l[IndexOf(l, key)]

\* LRU.RemoveUnused: the list without its back element
LRURemoveUnused(l) == SubSeq(l, 1, Len(l) - 1)

LRUBack(l) == l[Len(l)]

\* ------------------------------------------------------------- the state

VARIABLES
    env,        \* the callers' side and the file system: the keys asked
                \* for, the calls allowed, whether the loaders' streams can
                \* fail to close, whether os.Open and os.Remove can fail
                \* with an I/O error, how a write to a temporary file can
                \* end ("nil", "errWrite", "ErrShortWrite")
    opts,       \* DiskCacheOptions (fixed at construction)
    state,      \* c.state: 0, inited or closed
    index,      \* c.index: the LRU list
    indexNil,   \* c.index = nil
    size,       \* c.size
    calls,      \* c.calls: key -> id of the in-flight loadCall, 0 when absent
    mu,         \* c.mu: 0, the caller holding it, or EvId
    basePath,   \* c.basePath: "" or "base"
    sizeMax,    \* c.sizeMax
    evict,      \* the buffer (capacity 1) of the channel c.evict
    evictOpen,  \* "nil" (no channel), "open" or "closed"
    evictLast,  \* c.evictLast
    now,        \* the clock
    files,      \* the content files: canonical path -> bytes
    tmps,       \* per caller: the temporary file of its tee
    cs,         \* per caller: the locals of its GetOrLoad call and stream
    out,        \* per caller: what its current or last call returned
    ev,         \* the eviction routine: its position and the size it received
    panicked,   \* a goroutine panicked: the process is gone
    ncalls,     \* number of GetOrLoad calls started (ids of the loadCalls)
    lru         \* the index used on its own: the number of operations
                \* applied to it, for each key the number of its latest Get
                \* or Set (0: none since it was removed or never set), and
                \* what the last operation returned

vars == <<env, opts, state, index, indexNil, size, calls, mu, basePath, sizeMax,
          evict, evictOpen, evictLast, now, files, tmps, cs, out, ev,
          panicked, ncalls, lru>>

cacheVars == <<state, index, indexNil, size, calls, mu, basePath, sizeMax,
               evict, evictOpen, evictLast, files, tmps, ev>>

\* the values a user of the index stores
LruValues == {[sum |-> 1, size |-> 1], [sum |-> 5, size |-> 2]}

\* no operation was applied to the index yet
LruNew == [ops |-> 0, last |-> [k \in LruKeys |-> 0],
           ret |-> [op |-> "none", key |-> "-", sum |-> 0, size |-> 0,
                    ok |-> FALSE]]

\* no temporary file
NoTmp == [dir |-> "none", data |-> <<>>]

\* the locals of a caller that is not in a call
CsIdle == [pc |-> "idle", id |-> 0, key |-> "-", cacheHit |-> FALSE,
           callHit |-> FALSE, lead |-> FALSE, sum |-> 0, fbase |-> "",
           src |-> <<>>, n |-> 0, dsize |-> 0, errw |-> "nil",
           errc |-> "nil", total |-> 0, waitOn |-> 0, rel |-> FALSE,
           er |-> "nil", e |-> "nil", wn |-> 0]

\* the record of a call that has returned nothing yet
\* (id: the call; cached: the key was in the index when the call began;
\* lead, waited: the call registered, joined a loadCall; ler: the call.er a
\* waiter read; loads: calls of the loader; dsize: the size the loader
\* declared; want: the loader's bytes; sum: the checksum of the entry whose
\* file was opened; miss: a released waiter found no entry; kind: what was
\* returned; bytes: the bytes read from the
\* stream; eof: it was read to the end; err: the error of GetOrLoad or of
\* Close; errw: the error of the diskTee's publish; done: Close returned)
OutNew(key) == [id |-> 0, key |-> key, cached |-> FALSE, kind |-> "none",
                lead |-> FALSE, waited |-> FALSE, ler |-> "nil",
                miss |-> FALSE, loads |-> 0, dsize |-> 0, want |-> <<>>, sum |-> 0, bytes |-> <<>>,
                eof |-> FALSE, err |-> "nil", errw |-> "nil", done |-> FALSE]

\* DiskCacheOptions: the budget (0: none) and the emergency ratio in tenths
\* (0: unset)
OptionSets == [DiskSizeMax : {0, MaxBudget},
               EvictionPeriodMin : {0},
               EvictionEmergencyRatio : {0, 20}]

\* NewDiskCache: nothing is initialized before the first GetOrLoad
InitWith(e, o) ==
    /\ env = e
    /\ opts = o
    /\ state = 0
    /\ index = <<>>
    /\ indexNil = FALSE
    /\ size = 0
    /\ calls = [k \in Keys |-> 0]
    /\ mu = 0
    /\ basePath = ""
    /\ sizeMax = 0
    /\ evict = <<>>
    /\ evictOpen = "nil"
    /\ evictLast = 0
    /\ now = 0
    /\ files = <<>>
    /\ tmps = [c \in Callers |-> NoTmp]
    /\ cs = [c \in Callers |-> CsIdle]
    /\ out = [c \in Callers |-> OutNew("-")]
    /\ ev = [pc |-> "off", sz |-> 0]
    /\ panicked = FALSE
    /\ ncalls = 0
    /\ lru = LruNew

\* two keys, every configuration
Init == \E o \in OptionSets :
            /\ (o.DiskSizeMax = 0 => o.EvictionEmergencyRatio = 0)
            /\ InitWith([keys |-> Keys, maxCalls |-> MaxCalls,
                          closeErrs |-> {FALSE},
                          openErrs |-> {FALSE}, rmErrs |-> {FALSE},
                          writeErrs |-> {"nil"}], o)

\* one key, no budget: more calls
InitOneKey ==
    InitWith([keys |-> {"k1"}, maxCalls |-> MaxCallsOneKey,
              closeErrs |-> {FALSE},
                          openErrs |-> {FALSE}, rmErrs |-> {FALSE},
                          writeErrs |-> {"nil"}],
             [DiskSizeMax |-> 0, EvictionPeriodMin |-> 0,
              EvictionEmergencyRatio |-> 0])

\* two keys, a budget: fewer calls
InitBudget == \E o \in OptionSets :
                  /\ o.DiskSizeMax > 0
                  /\ InitWith([keys |-> Keys, maxCalls |-> MaxCallsBudget,
                                closeErrs |-> {FALSE},
                          openErrs |-> {FALSE}, rmErrs |-> {FALSE},
                          writeErrs |-> {"nil"}], o)

\* two keys, no budget, loaders whose streams can fail to close
InitTee ==
    InitWith([keys |-> Keys, maxCalls |-> MaxCalls,
              closeErrs |-> {FALSE, TRUE},
              openErrs |-> {FALSE}, rmErrs |-> {FALSE},
              writeErrs |-> {"nil"}],
             [DiskSizeMax |-> 0, EvictionPeriodMin |-> 0,
              EvictionEmergencyRatio |-> 0])

\* two keys, every configuration, fewer calls, a file system whose os.Open
\* can fail
InitPurge == \E o \in OptionSets :
                 /\ (o.DiskSizeMax = 0 => o.EvictionEmergencyRatio = 0)
                 /\ InitWith([keys |-> Keys, maxCalls |-> MaxCallsPurge,
                               closeErrs |-> {FALSE},
                          openErrs |-> {FALSE, TRUE}, rmErrs |-> {FALSE},
                          writeErrs |-> {"nil"}], o)

\* two keys, a budget smaller than the larger content, the default
\* emergency ratio, a file system whose os.Remove can fail
InitEvict ==
    InitWith([keys |-> Keys, maxCalls |-> MaxCalls, closeErrs |-> {FALSE},
              openErrs |-> {FALSE}, rmErrs |-> {FALSE, TRUE},
              writeErrs |-> {"nil"}],
             [DiskSizeMax |-> EvictBudget, EvictionPeriodMin |-> 0,
              EvictionEmergencyRatio |-> 0])

\* one key, no budget, more calls, a file system whose os.Open can fail
InitOpen ==
    InitWith([keys |-> {"k1"}, maxCalls |-> MaxCallsOneKey,
              closeErrs |-> {FALSE},
              openErrs |-> {FALSE, TRUE}, rmErrs |-> {FALSE},
              writeErrs |-> {"nil"}],
             [DiskSizeMax |-> 0, EvictionPeriodMin |-> 0,
              EvictionEmergencyRatio |-> 0])

\* two keys, no budget, fewer calls, temporary files whose writes can fail
\* or be short
InitWrite ==
    InitWith([keys |-> Keys, maxCalls |-> MaxCallsWrite,
              closeErrs |-> {FALSE}, openErrs |-> {FALSE},
              rmErrs |-> {FALSE},
              writeErrs |-> {"nil", "errWrite", "ErrShortWrite"}],
             [DiskSizeMax |-> 0, EvictionPeriodMin |-> 0,
              EvictionEmergencyRatio |-> 0])

\* ------------------------------------------------------------ file system

FileExists(p) == p \in DOMAIN files

WriteFile(f, p, data) == [x \in (DOMAIN f) \cup {p} |-> IF x = p THEN data ELSE f[x]]

\* os.Remove(p) that removes nothing
KeepFile(f, p) == f

\* os.Remove(p)
RemoveFile(f, p) == [x \in (DOMAIN f) \ {p} |-> f[x]]

\* os.RemoveAll(base)
RemoveAll(f, base) == [x \in {y \in DOMAIN f : y[1] # base} |-> f[x]]

\* ---------------------------------------------------------------- loader

\* what a Loader can return for a key: an error, or a declared size and a
\* stream; the declared size need not be the length of the stream, and the
\* Close of the stream can return an error (cerr)
DeclSizes == {-1, BigSize} \cup {Len(b) : b \in Contents}

LoaderResults(key) ==
    {[err |-> TRUE, size |-> 0, bytes |-> <<>>, cerr |-> FALSE]}
    \cup [err : {FALSE}, size : DeclSizes, bytes : Contents,
          cerr : env.closeErrs]

\* ------------------------------------------------------ helpers of a call

\* the call returns: the caller is idle again
Return(c) == [cs EXCEPT ![c] = CsIdle]

\* call.Done() alone, the assignment of call.er that precedes it left out:
\* the callers waiting on the loadCall id are released and read a nil call.er
DoneWithoutEr(w, id, er) == [c \in Callers |->
                               IF w[c].pc = "wait" /\ w[c].waitOn = id
                               THEN [w[c] EXCEPT !.rel = TRUE]
                               ELSE w[c]]

\* call.Done(): every caller waiting on the loadCall id is released and
\* will read call.er = er
Done(w, id, er) == [c \in Callers |->
                      IF w[c].pc = "wait" /\ w[c].waitOn = id
                      THEN [w[c] EXCEPT !.rel = TRUE, !.er = er]
                      ELSE w[c]]

\* the loader is called outside of any caching: its result is returned as is
Direct(c, r) ==
    [out EXCEPT ![c].kind = IF r.err THEN "err" ELSE "raw",
                ![c].err = IF r.err THEN "load" ELSE "nil",
                ![c].loads = @ + 1,
                ![c].dsize = r.size,
                ![c].want = r.bytes,
                ![c].bytes = r.bytes,
                ![c].eof = ~r.err,
                ![c].done = TRUE]

\* ---------------------------------------------------------------- init()

\* DiskCache.init, called by the first GetOrLoad: provisions the base
\* directory and starts the eviction routine when a budget is configured
DoInit ==
    /\ state' = inited
    /\ basePath' = "base"
    /\ sizeMax' = opts.DiskSizeMax
    /\ IF opts.DiskSizeMax > 0
       THEN /\ evictOpen' = "open"
            /\ evictLast' = now
            /\ ev' = [pc |-> "recv", sz |-> 0]
       ELSE UNCHANGED <<evictOpen, evictLast, ev>>

\* ------------------------------------------------------------- GetOrLoad

\* GetOrLoad that goes on to getOrLoad whatever c.state is
GetOrLoadAnyState(c) ==
    /\ ~panicked
    /\ cs[c].pc = "idle"
    /\ ncalls < env.maxCalls
    /\ \E key \in env.keys :
        /\ cs' = [cs EXCEPT ![c] = [CsIdle EXCEPT !.pc = "getOrLoad",
                                                  !.id = ncalls + 1,
                                                  !.key = key]]
        /\ out' = [out EXCEPT ![c] = [OutNew(key) EXCEPT
                                         !.id = ncalls + 1,
                                         !.cached = LRUHas(index, key)]]
    /\ ncalls' = ncalls + 1
    /\ UNCHANGED <<lru, env, opts, cacheVars, now, panicked>>

\* GetOrLoad on an initialized cache: the atomic load of c.state says inited
GetOrLoadInited(c) ==
    /\ ~panicked
    /\ cs[c].pc = "idle"
    /\ ncalls < env.maxCalls
    /\ state = inited
    /\ \E key \in env.keys :
        /\ cs' = [cs EXCEPT ![c] = [CsIdle EXCEPT !.pc = "getOrLoad",
                                                  !.id = ncalls + 1,
                                                  !.key = key]]
        /\ out' = [out EXCEPT ![c] = [OutNew(key) EXCEPT
                                         !.id = ncalls + 1,
                                         !.cached = LRUHas(index, key)]]
    /\ ncalls' = ncalls + 1
    /\ UNCHANGED <<lru, env, opts, cacheVars, now, panicked>>

\* GetOrLoad on a cache that is not initialized: init() under the mutex
GetOrLoadInit(c) ==
    /\ ~panicked
    /\ cs[c].pc = "idle"
    /\ ncalls < env.maxCalls
    /\ state = 0
    /\ mu = 0
    /\ DoInit
    /\ \E key \in env.keys :
        /\ cs' = [cs EXCEPT ![c] = [CsIdle EXCEPT !.pc = "getOrLoad",
                                                  !.id = ncalls + 1,
                                                  !.key = key]]
        /\ out' = [out EXCEPT ![c] = [OutNew(key) EXCEPT !.id = ncalls + 1]]
    /\ ncalls' = ncalls + 1
    /\ UNCHANGED <<lru, env, opts, index, indexNil, size, calls, mu, evict, files, tmps,
                   now, panicked>>

\* getOrLoad, first block: under the mutex, the index is looked up, then
\* the in-flight calls; a caller that finds neither registers its loadCall
Lookup(c) ==
    /\ ~panicked
    /\ cs[c].pc = "getOrLoad"
    /\ mu = 0
    /\ IF indexNil
       THEN /\ panicked' = TRUE
            /\ UNCHANGED <<index, calls, cs, out>>
       ELSE /\ index' = LRUGet(index, cs[c].key)
            /\ UNCHANGED panicked
            /\ IF LRUHas(index, cs[c].key)
               THEN /\ cs' = [cs EXCEPT ![c].pc = "openFile",
                                        ![c].cacheHit = TRUE,
                                        ![c].sum = LRUValue(index, cs[c].key).sum]
                    /\ UNCHANGED <<calls, out>>
               ELSE IF calls[cs[c].key] # 0
               THEN /\ cs' = [cs EXCEPT ![c].pc = "wait",
                                        ![c].callHit = TRUE,
                                        ![c].waitOn = calls[cs[c].key]]
                    /\ out' = [out EXCEPT ![c].waited = TRUE]
                    /\ UNCHANGED calls
               ELSE /\ calls' = [calls EXCEPT ![cs[c].key] = cs[c].id]
                    /\ cs' = [cs EXCEPT ![c].pc = "load", ![c].lead = TRUE]
                    /\ out' = [out EXCEPT ![c].lead = TRUE]
    /\ UNCHANGED <<lru, env, opts, state, indexNil, size, mu, basePath, sizeMax, evict,
                   evictOpen, evictLast, now, files, tmps, ev, ncalls>>

\* a waiter whose in-flight call failed and that, after calling the loader,
\* goes on to a new load instead of returning
WaitFailedRetry(c) ==
    /\ ~panicked
    /\ cs[c].pc = "wait"
    /\ cs[c].rel
    /\ cs[c].er # "nil"
    /\ out' = [out EXCEPT ![c].loads = @ + 1, ![c].ler = cs[c].er]
    /\ cs' = [cs EXCEPT ![c].pc = "load"]
    /\ UNCHANGED <<lru, env, opts, cacheVars, now, panicked, ncalls>>

\* getOrLoad, a waiter whose in-flight call failed: the loader is called
\* directly
WaitFailed(c) ==
    /\ ~panicked
    /\ cs[c].pc = "wait"
    /\ cs[c].rel
    /\ cs[c].er # "nil"
    /\ \E r \in LoaderResults(cs[c].key) :
        out' = [Direct(c, r) EXCEPT ![c].ler = cs[c].er]
    /\ cs' = Return(c)
    /\ UNCHANGED <<lru, env, opts, cacheVars, now, panicked, ncalls>>

\* a released waiter that, finding no entry, registers a loadCall of its
\* own before it calls the loader
WaitDoneRegister(c) ==
    /\ ~panicked
    /\ cs[c].pc = "wait"
    /\ cs[c].rel
    /\ cs[c].er = "nil"
    /\ mu = 0
    /\ IF indexNil
       THEN /\ panicked' = TRUE
            /\ UNCHANGED <<index, calls, cs, out>>
       ELSE /\ index' = LRUGet(index, cs[c].key)
            /\ UNCHANGED panicked
            /\ IF LRUHas(index, cs[c].key)
               THEN /\ cs' = [cs EXCEPT ![c].pc = "openFile",
                                        ![c].cacheHit = TRUE,
                                        ![c].sum = LRUValue(index, cs[c].key).sum]
                    /\ UNCHANGED <<calls, out>>
               ELSE /\ \E r \in LoaderResults(cs[c].key) :
                        out' = [Direct(c, r) EXCEPT ![c].miss = TRUE]
                    /\ calls' = [calls EXCEPT ![cs[c].key] = cs[c].id]
                    /\ cs' = Return(c)
    /\ UNCHANGED <<lru, env, opts, state, indexNil, size, mu, basePath, sizeMax,
                   evict, evictOpen, evictLast, now, files, tmps, ev, ncalls>>

\* getOrLoad, a waiter whose in-flight call succeeded: the index is looked
\* up again under the mutex
WaitDone(c) ==
    /\ ~panicked
    /\ cs[c].pc = "wait"
    /\ cs[c].rel
    /\ cs[c].er = "nil"
    /\ mu = 0
    /\ IF indexNil
       THEN /\ panicked' = TRUE
            /\ UNCHANGED <<index, cs, out>>
       ELSE /\ index' = LRUGet(index, cs[c].key)
            /\ UNCHANGED panicked
            /\ IF LRUHas(index, cs[c].key)
               THEN /\ cs' = [cs EXCEPT ![c].pc = "openFile",
                                        ![c].cacheHit = TRUE,
                                        ![c].sum = LRUValue(index, cs[c].key).sum]
                    /\ UNCHANGED out
               ELSE /\ \E r \in LoaderResults(cs[c].key) :
                        out' = [Direct(c, r) EXCEPT ![c].miss = TRUE]
                    /\ cs' = Return(c)
    /\ UNCHANGED <<lru, env, opts, state, indexNil, size, calls, mu, basePath, sizeMax,
                   evict, evictOpen, evictLast, now, files, tmps, ev, ncalls>>

\* a cache hit that treats every failure of os.Open as a missing file and
\* goes on to a new load
openFileRepair(c) ==
    /\ ~panicked
    /\ cs[c].pc = "openFile"
    /\ \E fail \in env.openErrs :
        IF ~fail /\ FileExists(getFilename(basePath, cs[c].sum))
        THEN /\ cs' = [cs EXCEPT ![c].pc = "diskFile",
                                 ![c].fbase = basePath,
                                 ![c].src = files[getFilename(basePath, cs[c].sum)]]
             /\ out' = [out EXCEPT ![c].kind = "file", ![c].sum = cs[c].sum]
        ELSE /\ cs' = [cs EXCEPT ![c].pc = "load"]
             /\ UNCHANGED out
    /\ UNCHANGED <<lru, env, opts, cacheVars, now, panicked, ncalls>>

\* getOrLoad, cache hit: the file of the entry's checksum is opened; when it
\* does not exist the call goes on to a new load, when os.Open fails with
\* another error the loader is called directly
openFile(c) ==
    /\ ~panicked
    /\ cs[c].pc = "openFile"
    /\ \E fail \in env.openErrs :
        IF fail
        THEN /\ \E r \in LoaderResults(cs[c].key) : out' = Direct(c, r)
             /\ cs' = Return(c)
        ELSE IF FileExists(getFilename(basePath, cs[c].sum))
        THEN /\ cs' = [cs EXCEPT ![c].pc = "diskFile",
                                 ![c].fbase = basePath,
                                 ![c].src = files[getFilename(basePath, cs[c].sum)]]
             /\ out' = [out EXCEPT ![c].kind = "file", ![c].sum = cs[c].sum]
        ELSE /\ cs' = [cs EXCEPT ![c].pc = "load"]
             /\ UNCHANGED out
    /\ UNCHANGED <<lru, env, opts, cacheVars, now, panicked, ncalls>>

\* getOrLoad, the new load: the loader is called; an error, a negative size
\* or a size refused by the admission control return at once, otherwise the
\* temporary file is created and a diskTee is returned
Load(c) ==
    /\ ~panicked
    /\ cs[c].pc = "load"
    /\ \E r \in LoaderResults(cs[c].key) :
        IF r.err
        THEN /\ out' = [out EXCEPT ![c].kind = "err", ![c].err = "load",
                                   ![c].loads = @ + 1,
                                   ![c].done = cs[c].callHit \/ cs[c].cacheHit]
             /\ cs' = IF ~cs[c].callHit /\ ~cs[c].cacheHit
                      THEN [cs EXCEPT ![c].pc = "failed"]
                      ELSE Return(c)
             /\ UNCHANGED tmps
        ELSE IF r.size < 0 \/ (sizeMax > 0 /\ r.size \div 10 > sizeMax)
        THEN /\ out' = Direct(c, r)
             /\ cs' = Return(c)
             /\ UNCHANGED tmps
        ELSE /\ out' = [out EXCEPT ![c].kind = "tee", ![c].loads = @ + 1,
                                   ![c].dsize = r.size, ![c].want = r.bytes]
             /\ cs' = [cs EXCEPT ![c].pc = "diskTee", ![c].src = r.bytes,
                                 ![c].dsize = r.size,
                                 ![c].errc = IF r.cerr THEN "close" ELSE "nil"]
             /\ tmps' = [tmps EXCEPT ![c] =
                            [dir |-> IF basePath = "" THEN "tmp" ELSE basePath,
                             data |-> <<>>]]
    /\ UNCHANGED <<lru, env, opts, state, index, indexNil, size, calls, mu, basePath,
                   sizeMax, evict, evictOpen, evictLast, now, files, ev,
                   panicked, ncalls>>

\* a deferred function that releases the waiters and leaves the loadCall in
\* c.calls
LoadFailedKeep(c) ==
    /\ ~panicked
    /\ cs[c].pc = "failed"
    /\ mu = 0
    /\ cs' = [Done(cs, cs[c].id, "load") EXCEPT ![c] = CsIdle]
    /\ out' = [out EXCEPT ![c].done = TRUE]
    /\ UNCHANGED <<lru, env, opts, state, index, indexNil, size, calls, mu, basePath,
                   sizeMax, evict, evictOpen, evictLast, now, files, tmps, ev,
                   panicked, ncalls>>

\* getOrLoad, the deferred function after a failed load of the leader: the
\* loadCall is deleted under the mutex and its waiters are released
LoadFailed(c) ==
    /\ ~panicked
    /\ cs[c].pc = "failed"
    /\ mu = 0
    /\ calls' = [calls EXCEPT ![cs[c].key] = 0]
    /\ cs' = [Done(cs, cs[c].id, "load") EXCEPT ![c] = CsIdle]
    /\ out' = [out EXCEPT ![c].done = TRUE]
    /\ UNCHANGED <<lru, env, opts, state, index, indexNil, size, mu, basePath, sizeMax,
                   evict, evictOpen, evictLast, now, files, tmps, ev,
                   panicked, ncalls>>

\* --------------------------------------------------------------- diskTee

\* diskTee.Read: the byte read from the loader's stream is returned to the
\* caller; while no write has failed (t.e is nil) it is written to the
\* temporary file, hashed and counted in t.n; a write that fails or is short
\* is recorded in t.e
teeRead(c) ==
    /\ ~panicked
    /\ cs[c].pc = "diskTee"
    /\ cs[c].n < Len(cs[c].src)
    /\ out' = [out EXCEPT ![c].bytes = Append(@, cs[c].src[cs[c].n + 1])]
    /\ \E w \in env.writeErrs :
        IF cs[c].e # "nil"
        THEN /\ cs' = [cs EXCEPT ![c].n = @ + 1]
             /\ UNCHANGED tmps
        ELSE IF w # "nil"
        THEN /\ cs' = [cs EXCEPT ![c].n = @ + 1, ![c].e = w]
             /\ UNCHANGED tmps
        ELSE /\ cs' = [cs EXCEPT ![c].n = @ + 1, ![c].wn = @ + 1]
             /\ tmps' = [tmps EXCEPT ![c].data = Append(@, cs[c].src[cs[c].n + 1])]
    /\ UNCHANGED <<lru, env, opts, state, index, indexNil, size, calls, mu, basePath,
                   sizeMax, evict, evictOpen, evictLast, now, files, ev,
                   panicked, ncalls>>

\* a diskTee.Close that does not look at the error recorded by the reads
teeCloseIgnoreE(c) ==
    /\ ~panicked
    /\ cs[c].pc = "diskTee"
    /\ cs' = [cs EXCEPT ![c].pc = "addFileLocked",
                        ![c].sum = hashSum(SubSeq(cs[c].src, 1, cs[c].wn)),
                        ![c].errw = IF cs[c].wn # cs[c].dsize
                                    THEN "errSizeNotMatch" ELSE "nil"]
    /\ out' = [out EXCEPT ![c].eof = (cs[c].n = Len(cs[c].src))]
    /\ UNCHANGED <<lru, env, opts, cacheVars, now, panicked, ncalls>>

\* diskTee.Close, up to the call of addFileLocked: the source and the
\* temporary file are closed; the error is the one recorded by the reads,
\* or errSizeNotMatch when the count of the bytes written is not the
\* declared size
teeClose(c) ==
    /\ ~panicked
    /\ cs[c].pc = "diskTee"
    /\ cs' = [cs EXCEPT ![c].pc = "addFileLocked",
                        ![c].sum = hashSum(SubSeq(cs[c].src, 1, cs[c].wn)),
                        ![c].errw = IF cs[c].e # "nil" THEN cs[c].e
                                    ELSE IF cs[c].wn # cs[c].dsize
                                    THEN "errSizeNotMatch" ELSE "nil"]
    /\ out' = [out EXCEPT ![c].eof = (cs[c].n = Len(cs[c].src))]
    /\ UNCHANGED <<lru, env, opts, cacheVars, now, panicked, ncalls>>

\* addFileLocked that sets the entry although it was entered with an error
addFileLockedErrSet(c) ==
    /\ ~panicked
    /\ cs[c].pc = "addFileLocked"
    /\ cs[c].errw # "nil"
    /\ mu = 0
    /\ ~indexNil
    /\ index' = LRUSet(index, cs[c].key, [sum |-> cs[c].sum, size |-> cs[c].dsize])
    /\ calls' = [calls EXCEPT ![cs[c].key] = 0]
    /\ cs' = [cs EXCEPT ![c].pc = "teeDone"]
    /\ UNCHANGED <<lru, env, opts, state, indexNil, size, mu, basePath, sizeMax,
                   evict, evictOpen, evictLast, now, files, tmps, out, ev,
                   panicked, ncalls>>

\* addFileLocked, entered with an error: only the loadCall of the key is
\* deleted
addFileLockedErr(c) ==
    /\ ~panicked
    /\ cs[c].pc = "addFileLocked"
    /\ cs[c].errw # "nil"
    /\ mu = 0
    /\ calls' = [calls EXCEPT ![cs[c].key] = 0]
    /\ cs' = [cs EXCEPT ![c].pc = "teeDone"]
    /\ UNCHANGED <<lru, env, opts, state, index, indexNil, size, mu, basePath, sizeMax,
                   evict, evictOpen, evictLast, now, files, tmps, out, ev,
                   panicked, ncalls>>

\* addFileLocked and the first half of rename: the mutex is taken and the
\* canonical path is created exclusively.  When the path exists, rename
\* returns that error: the entry is set, the size is not changed.
addFileLocked(c) ==
    /\ ~panicked
    /\ cs[c].pc = "addFileLocked"
    /\ cs[c].errw = "nil"
    /\ mu = 0
    /\ IF FileExists(getFilename(basePath, cs[c].sum))
       THEN /\ UNCHANGED <<files, mu>>
            /\ IF indexNil
               THEN /\ panicked' = TRUE
                    /\ UNCHANGED <<index, calls, cs>>
               ELSE /\ index' = LRUSet(index, cs[c].key,
                                       [sum |-> cs[c].sum, size |-> cs[c].dsize])
                    /\ calls' = [calls EXCEPT ![cs[c].key] = 0]
                    /\ cs' = [cs EXCEPT ![c].pc = "teeDone", ![c].errw = "EEXIST"]
                    /\ UNCHANGED panicked
       ELSE /\ files' = WriteFile(files, getFilename(basePath, cs[c].sum), <<>>)
            /\ mu' = c
            /\ cs' = [cs EXCEPT ![c].pc = "rename"]
            /\ UNCHANGED <<index, calls, panicked>>
    /\ UNCHANGED <<lru, env, opts, state, indexNil, size, basePath, sizeMax, evict,
                   evictOpen, evictLast, now, tmps, out, ev, ncalls>>

\* the second half of rename and the rest of addFileLocked under the mutex:
\* the temporary file is renamed to the canonical path, the entry is set,
\* the size is added, the loadCall of the key is deleted
rename(c) ==
    /\ ~panicked
    /\ cs[c].pc = "rename"
    /\ mu = c
    /\ IF tmps[c].dir = "none"
       THEN /\ calls' = [calls EXCEPT ![cs[c].key] = 0]
            /\ cs' = [cs EXCEPT ![c].pc = "teeDone", ![c].errw = "ENOENT"]
            /\ mu' = 0
            /\ UNCHANGED <<files, tmps, index, size, panicked>>
       ELSE /\ files' = WriteFile(files, getFilename(basePath, cs[c].sum),
                                  tmps[c].data)
            /\ tmps' = [tmps EXCEPT ![c] = NoTmp]
            /\ IF indexNil
               THEN /\ panicked' = TRUE
                    /\ UNCHANGED <<index, size, calls, cs, mu>>
               ELSE /\ index' = LRUSet(index, cs[c].key,
                                       [sum |-> cs[c].sum, size |-> cs[c].dsize])
                    /\ size' = size + cs[c].dsize
                    /\ calls' = [calls EXCEPT ![cs[c].key] = 0]
                    /\ cs' = [cs EXCEPT ![c].pc = "teeDone",
                                        ![c].total = size + cs[c].dsize]
                    /\ mu' = 0
                    /\ UNCHANGED panicked
    /\ UNCHANGED <<lru, env, opts, state, indexNil, basePath, sizeMax, evict, evictOpen,
                   evictLast, now, out, ev, ncalls>>

\* the end of a diskTee.Close that returns the error of the publish when
\* the Close of the loader's stream returned none
teeDoneErrw(c) ==
    /\ ~panicked
    /\ cs[c].pc = "teeDone"
    /\ evict' = IF sizeMax > 0 /\ cs[c].total > sizeMax
                   /\ evictOpen = "open" /\ evict = <<>>
                THEN <<cs[c].total>> ELSE evict
    /\ tmps' = IF cs[c].errw # "nil" THEN [tmps EXCEPT ![c] = NoTmp] ELSE tmps
    /\ cs' = IF cs[c].lead
             THEN [Done(cs, cs[c].id, cs[c].errw) EXCEPT ![c] = CsIdle]
             ELSE Return(c)
    /\ out' = [out EXCEPT ![c].errw = cs[c].errw,
                           ![c].err = IF cs[c].errc # "nil" THEN cs[c].errc
                                      ELSE cs[c].errw,
                           ![c].done = TRUE]
    /\ UNCHANGED <<lru, env, opts, state, index, indexNil, size, calls, mu, basePath,
                   sizeMax, evictOpen, evictLast, now, files, ev, panicked,
                   ncalls>>

\* the end of a diskTee.Close whose signal to the eviction routine is a
\* plain send: it waits until the buffer of the channel is free
teeDoneBlocking(c) ==
    /\ ~panicked
    /\ cs[c].pc = "teeDone"
    /\ (sizeMax > 0 /\ cs[c].total > sizeMax /\ evictOpen = "open")
          => evict = <<>>
    /\ evict' = IF sizeMax > 0 /\ cs[c].total > sizeMax
                   /\ evictOpen = "open" /\ evict = <<>>
                THEN <<cs[c].total>> ELSE evict
    /\ tmps' = IF cs[c].errw # "nil" THEN [tmps EXCEPT ![c] = NoTmp] ELSE tmps
    /\ cs' = IF cs[c].lead
             THEN [Done(cs, cs[c].id, cs[c].errw) EXCEPT ![c] = CsIdle]
             ELSE Return(c)
    /\ out' = [out EXCEPT ![c].errw = cs[c].errw, ![c].err = cs[c].errc,
                           ![c].done = TRUE]
    /\ UNCHANGED <<lru, env, opts, state, index, indexNil, size, calls, mu, basePath,
                   sizeMax, evictOpen, evictLast, now, files, ev, panicked,
                   ncalls>>

\* the end of a diskTee.Close that leaves the temporary file in place after
\* an error
teeDoneKeepTmp(c) ==
    /\ ~panicked
    /\ cs[c].pc = "teeDone"
    /\ evict' = IF sizeMax > 0 /\ cs[c].total > sizeMax
                   /\ evictOpen = "open" /\ evict = <<>>
                THEN <<cs[c].total>> ELSE evict
    /\ cs' = IF cs[c].lead
             THEN [Done(cs, cs[c].id, cs[c].errw) EXCEPT ![c] = CsIdle]
             ELSE Return(c)
    /\ out' = [out EXCEPT ![c].errw = cs[c].errw, ![c].err = cs[c].errc,
                           ![c].done = TRUE]
    /\ UNCHANGED <<lru, env, opts, state, index, indexNil, size, calls, mu, basePath,
                   sizeMax, evictOpen, evictLast, now, files, tmps, ev,
                   panicked, ncalls>>

\* the end of addFileLocked and of diskTee.Close: the eviction routine is
\* signalled without blocking when the total exceeds the budget, the
\* temporary file is removed after an error, the waiters are released;
\* Close returns the error of the Close of the loader's stream
teeDone(c) ==
    /\ ~panicked
    /\ cs[c].pc = "teeDone"
    /\ evict' = IF sizeMax > 0 /\ cs[c].total > sizeMax
                   /\ evictOpen = "open" /\ evict = <<>>
                THEN <<cs[c].total>> ELSE evict
    /\ tmps' = IF cs[c].errw # "nil" THEN [tmps EXCEPT ![c] = NoTmp] ELSE tmps
    /\ cs' = IF cs[c].lead
             THEN [Done(cs, cs[c].id, cs[c].errw) EXCEPT ![c] = CsIdle]
             ELSE Return(c)
    /\ out' = [out EXCEPT ![c].errw = cs[c].errw, ![c].err = cs[c].errc,
                           ![c].done = TRUE]
    /\ UNCHANGED <<lru, env, opts, state, index, indexNil, size, calls, mu, basePath,
                   sizeMax, evictOpen, evictLast, now, files, ev, panicked,
                   ncalls>>

\* -------------------------------------------------------------- diskFile

\* diskFile.Read: the bytes read from the file are hashed
fileRead(c) ==
    /\ ~panicked
    /\ cs[c].pc = "diskFile"
    /\ cs[c].n < Len(cs[c].src)
    /\ cs' = [cs EXCEPT ![c].n = @ + 1]
    /\ out' = [out EXCEPT ![c].bytes = Append(@, cs[c].src[cs[c].n + 1])]
    /\ UNCHANGED <<lru, env, opts, cacheVars, now, panicked, ncalls>>

\* diskFile.Close: when the hash of the bytes read is not the checksum of
\* the entry, the file is removed and errCorruptedCache is returned
fileClose(c) ==
    /\ ~panicked
    /\ cs[c].pc = "diskFile"
    /\ IF hashSum(SubSeq(cs[c].src, 1, cs[c].n)) # cs[c].sum
       THEN /\ files' = RemoveFile(files, getFilename(cs[c].fbase, cs[c].sum))
            /\ out' = [out EXCEPT ![c].err = "errCorruptedCache",
                                  ![c].eof = (cs[c].n = Len(cs[c].src)),
                                  ![c].done = TRUE]
       ELSE /\ out' = [out EXCEPT ![c].eof = (cs[c].n = Len(cs[c].src)),
                                  ![c].done = TRUE]
            /\ UNCHANGED files
    /\ cs' = Return(c)
    /\ UNCHANGED <<lru, env, opts, state, index, indexNil, size, calls, mu, basePath,
                   sizeMax, evict, evictOpen, evictLast, now, tmps, ev,
                   panicked, ncalls>>

\* --------------------------------------------------- the eviction routine

\* evictRoutine: the options, with their defaults
evictionPeriodMin ==
    IF opts.EvictionPeriodMin = 0 THEN defaultEvictionPeriodMin
    ELSE opts.EvictionPeriodMin

evictionEmergencyRatio ==
    IF opts.EvictionEmergencyRatio < 10 THEN defaultEvictionEmergencyRatio
    ELSE opts.EvictionEmergencyRatio

\* time.Until(t): the duration from now until t
timeUntil(t) == t - now

\* evictRoutine: whether the size received from the channel starts a pass
\* (the ratio is in tenths)
runEviction(sz) ==
    \/ timeUntil(evictLast) >= evictionPeriodMin
    \/ sz * 10 >= evictionEmergencyRatio * sizeMax

\* evictRoutine: a size is received from the channel
evictRecv ==
    /\ ~panicked
    /\ ev.pc = "recv"
    /\ evict # <<>>
    /\ evict' = <<>>
    /\ ev' = [pc |-> IF runEviction(Head(evict)) THEN "eviction" ELSE "recv",
              sz |-> Head(evict)]
    /\ UNCHANGED <<lru, env, opts, state, index, indexNil, size, calls, mu, basePath,
                   sizeMax, evictOpen, evictLast, now, files, tmps, cs, out,
                   panicked, ncalls>>

\* eviction: the mutex is taken
evictionLock ==
    /\ ~panicked
    /\ ev.pc = "eviction"
    /\ mu = 0
    /\ mu' = EvId
    /\ ev' = [ev EXCEPT !.pc = "evicting"]
    /\ UNCHANGED <<lru, env, opts, state, index, indexNil, size, calls, basePath,
                   sizeMax, evict, evictOpen, evictLast, now, files, tmps, cs,
                   out, panicked, ncalls>>

\* a turn of the loop of eviction that is taken whatever the size is
evictionStepAlways ==
    /\ ~panicked
    /\ ev.pc = "evicting"
    /\ mu = EvId
    /\ IF indexNil
       THEN /\ panicked' = TRUE
            /\ UNCHANGED <<index, files, size, ev>>
       ELSE /\ index # <<>>
            /\ index' = LRURemoveUnused(index)
            /\ UNCHANGED panicked
            /\ \E fail \in env.rmErrs :
                IF fail
                THEN /\ ev' = [ev EXCEPT !.pc = "break"]
                     /\ UNCHANGED <<files, size>>
                ELSE /\ files' = RemoveFile(files, getFilename(basePath,
                                                              LRUBack(index).sum))
                     /\ size' = size - LRUBack(index).size
                     /\ UNCHANGED ev
    /\ UNCHANGED <<lru, env, opts, state, indexNil, calls, mu, basePath, sizeMax, evict,
                   evictOpen, evictLast, now, tmps, cs, out, ncalls>>

\* a turn of the loop of eviction that subtracts the size of the entry
\* although os.Remove failed
evictionStepCount ==
    /\ ~panicked
    /\ ev.pc = "evicting"
    /\ mu = EvId
    /\ size > sizeMax
    /\ IF indexNil
       THEN /\ panicked' = TRUE
            /\ UNCHANGED <<index, files, size, ev>>
       ELSE /\ index # <<>>
            /\ index' = LRURemoveUnused(index)
            /\ UNCHANGED panicked
            /\ size' = size - LRUBack(index).size
            /\ \E fail \in env.rmErrs :
                IF fail
                THEN /\ ev' = [ev EXCEPT !.pc = "break"]
                     /\ UNCHANGED files
                ELSE /\ files' = RemoveFile(files, getFilename(basePath,
                                                              LRUBack(index).sum))
                     /\ UNCHANGED ev
    /\ UNCHANGED <<lru, env, opts, state, indexNil, calls, mu, basePath, sizeMax, evict,
                   evictOpen, evictLast, now, tmps, cs, out, ncalls>>

\* eviction, one turn of the loop under the mutex: the back entry of the
\* index is removed, its file is removed, its size is subtracted; when
\* os.Remove fails with another error than "does not exist" the loop is left
\* with the size as it was
evictionStep ==
    /\ ~panicked
    /\ ev.pc = "evicting"
    /\ mu = EvId
    /\ size > sizeMax
    /\ IF indexNil
       THEN /\ panicked' = TRUE
            /\ UNCHANGED <<index, files, size, ev>>
       ELSE /\ index # <<>>
            /\ index' = LRURemoveUnused(index)
            /\ UNCHANGED panicked
            /\ \E fail \in env.rmErrs :
                IF fail
                THEN /\ ev' = [ev EXCEPT !.pc = "break"]
                     /\ UNCHANGED <<files, size>>
                ELSE /\ files' = RemoveFile(files, getFilename(basePath,
                                                              LRUBack(index).sum))
                     /\ size' = size - LRUBack(index).size
                     /\ UNCHANGED ev
    /\ UNCHANGED <<lru, env, opts, state, indexNil, calls, mu, basePath, sizeMax, evict,
                   evictOpen, evictLast, now, tmps, cs, out, ncalls>>

\* eviction returns (the size is within the budget, the index is empty, or
\* the loop was left): the mutex is released and evictRoutine records the
\* time of the pass
evictionUnlock ==
    /\ ~panicked
    /\ mu = EvId
    /\ \/ ev.pc = "break"
       \/ /\ ev.pc = "evicting"
          /\ size <= sizeMax \/ (~indexNil /\ index = <<>>)
    /\ mu' = 0
    /\ evictLast' = now
    /\ ev' = [ev EXCEPT !.pc = "recv"]
    /\ UNCHANGED <<lru, env, opts, state, index, indexNil, size, calls, basePath,
                   sizeMax, evict, evictOpen, now, files, tmps, cs, out,
                   panicked, ncalls>>

\* evictRoutine: the channel is closed and empty, the routine ends
evictExit ==
    /\ ~panicked
    /\ ev.pc = "recv"
    /\ evict = <<>>
    /\ evictOpen = "closed"
    /\ ev' = [ev EXCEPT !.pc = "end"]
    /\ UNCHANGED <<lru, env, opts, state, index, indexNil, size, calls, mu, basePath,
                   sizeMax, evict, evictOpen, evictLast, now, files, tmps, cs,
                   out, panicked, ncalls>>

\* ------------------------------------------------------- the environment

\* time passes (the clock is read by the eviction routine only)
Tick ==
    /\ ~panicked
    /\ evictOpen = "open"
    /\ now + ClockStep <= MaxNow
    /\ now' = now + ClockStep
    /\ UNCHANGED <<lru, env, opts, cacheVars, cs, out, panicked, ncalls>>

\* a stored content file is damaged from outside: it loses its last byte
Corrupt ==
    /\ ~panicked
    /\ \E p \in DOMAIN files :
        /\ p[1] = "base"
        /\ Len(files[p]) > 0
        /\ getFilename("base", hashSum(files[p])) = p
        /\ files' = WriteFile(files, p, SubSeq(files[p], 1, Len(files[p]) - 1))
    /\ UNCHANGED <<lru, env, opts, state, index, indexNil, size, calls, mu, basePath,
                   sizeMax, evict, evictOpen, evictLast, now, tmps, cs, out,
                   ev, panicked, ncalls>>

\* PurgeAndClose on an initialized cache: under the mutex the index is
\* dropped, the base directory is removed, the channel is closed
PurgeAndClose ==
    /\ ~panicked
    /\ state = inited
    /\ mu = 0
    /\ indexNil' = TRUE
    /\ index' = <<>>
    /\ files' = RemoveAll(files, basePath)
    /\ tmps' = [c \in Callers |-> IF tmps[c].dir = basePath THEN NoTmp ELSE tmps[c]]
    /\ basePath' = ""
    /\ evictOpen' = IF evictOpen = "open" THEN "closed" ELSE evictOpen
    /\ state' = closed
    /\ UNCHANGED <<lru, env, opts, size, calls, mu, sizeMax, evict, evictLast, now, cs,
                   out, ev, panicked, ncalls>>

\* GetOrLoad on a closed cache: init() says no, the loader is called directly
GetOrLoadClosed(c) ==
    /\ ~panicked
    /\ cs[c].pc = "idle"
    /\ ncalls < env.maxCalls
    /\ state = closed
    /\ mu = 0
    /\ \E key \in env.keys : \E r \in LoaderResults(key) :
        out' = [out EXCEPT ![c] =
                  [OutNew(key) EXCEPT !.kind = IF r.err THEN "err" ELSE "raw",
                                      !.err = IF r.err THEN "load" ELSE "nil",
                                      !.loads = 1, !.dsize = r.size,
                                      !.want = r.bytes,
                                      !.bytes = r.bytes, !.eof = ~r.err,
                                      !.done = TRUE]]
    /\ ncalls' = ncalls + 1
    /\ UNCHANGED <<lru, env, opts, cacheVars, cs, now, panicked>>

\* GetOrLoad, the atomic load of c.state does not say inited: init() is
\* called and waits for the mutex
GetOrLoadNotInited(c) ==
    /\ ~panicked
    /\ cs[c].pc = "idle"
    /\ ncalls < env.maxCalls
    /\ state # inited
    /\ \E key \in env.keys :
        /\ cs' = [cs EXCEPT ![c] = [CsIdle EXCEPT !.pc = "init",
                                                  !.id = ncalls + 1,
                                                  !.key = key]]
        /\ out' = [out EXCEPT ![c] = [OutNew(key) EXCEPT !.id = ncalls + 1]]
    /\ ncalls' = ncalls + 1
    /\ UNCHANGED <<lru, env, opts, cacheVars, now, panicked>>

\* init() that initializes whatever c.state is
initAgain(c) ==
    /\ ~panicked
    /\ cs[c].pc = "init"
    /\ mu = 0
    /\ state > 0
    /\ DoInit
    /\ cs' = [cs EXCEPT ![c].pc = "getOrLoad"]
    /\ UNCHANGED <<lru, env, opts, index, indexNil, size, calls, mu, evict, files, tmps,
                   now, out, panicked, ncalls>>

\* init() under the mutex, the state is not 0 any more: init returns whether
\* it is inited; GetOrLoad goes on to getOrLoad, or calls the loader directly
initDone(c) ==
    /\ ~panicked
    /\ cs[c].pc = "init"
    /\ mu = 0
    /\ state > 0
    /\ IF state = inited
       THEN /\ cs' = [cs EXCEPT ![c].pc = "getOrLoad"]
            /\ out' = [out EXCEPT ![c].cached = LRUHas(index, cs[c].key)]
       ELSE /\ \E r \in LoaderResults(cs[c].key) : out' = Direct(c, r)
            /\ cs' = Return(c)
    /\ UNCHANGED <<lru, env, opts, cacheVars, now, panicked, ncalls>>

\* init() under the mutex, the state is 0 and the base directory is
\* provisioned: the cache is inited
initOk(c) ==
    /\ ~panicked
    /\ cs[c].pc = "init"
    /\ mu = 0
    /\ state = 0
    /\ DoInit
    /\ cs' = [cs EXCEPT ![c].pc = "getOrLoad"]
    /\ UNCHANGED <<lru, env, opts, index, indexNil, size, calls, mu, evict, files, tmps,
                   now, out, panicked, ncalls>>

\* init() whose failure leaves the cache inited, the eviction routine
\* started
initFailedInited(c) ==
    /\ ~panicked
    /\ cs[c].pc = "init"
    /\ mu = 0
    /\ state = 0
    /\ DoInit
    /\ \E r \in LoaderResults(cs[c].key) : out' = Direct(c, r)
    /\ cs' = Return(c)
    /\ UNCHANGED <<lru, env, opts, index, indexNil, size, calls, mu, evict, now, files,
                   tmps, panicked, ncalls>>

\* init() under the mutex, the state is 0 and the base directory cannot be
\* provisioned: the cache is closed, GetOrLoad calls the loader directly
initFailed(c) ==
    /\ ~panicked
    /\ cs[c].pc = "init"
    /\ mu = 0
    /\ state = 0
    /\ state' = closed
    /\ \E r \in LoaderResults(cs[c].key) : out' = Direct(c, r)
    /\ cs' = Return(c)
    /\ UNCHANGED <<lru, env, opts, index, indexNil, size, calls, mu, basePath, sizeMax,
                   evict, evictOpen, evictLast, now, files, tmps, ev, panicked,
                   ncalls>>

\* PurgeAndClose on a cache that was never initialized: it is closed
PurgeAndCloseUninit ==
    /\ ~panicked
    /\ state = 0
    /\ mu = 0
    /\ state' = closed
    /\ UNCHANGED <<lru, env, opts, index, indexNil, size, calls, mu, basePath, sizeMax,
                   evict, evictOpen, evictLast, now, files, tmps, cs, out, ev,
                   panicked, ncalls>>

\* PurgeAndClose on a closed cache: it returns nil at once
PurgeAndCloseClosed ==
    /\ ~panicked
    /\ state = closed
    /\ mu = 0
    /\ UNCHANGED vars

\* ------------------------------------------- the index used on its own

\* one key, no budget (the cache itself takes no step)
InitLRU ==
    InitWith([keys |-> {"k1"}, maxCalls |-> 0, closeErrs |-> {FALSE},
              openErrs |-> {FALSE}, rmErrs |-> {FALSE},
              writeErrs |-> {"nil"}],
             [DiskSizeMax |-> 0, EvictionPeriodMin |-> 0,
              EvictionEmergencyRatio |-> 0])

\* LRU.Set(key, value)
lruSet ==
    /\ lru.ops < MaxLruOps
    /\ \E k \in LruKeys, v \in LruValues :
        /\ index' = LRUSet(index, k, v)
        /\ lru' = [ops |-> lru.ops + 1,
                   last |-> [lru.last EXCEPT ![k] = lru.ops + 1],
                   ret |-> [op |-> "set", key |-> k, sum |-> v.sum,
                            size |-> v.size, ok |-> TRUE]]
    /\ UNCHANGED <<env, opts, state, indexNil, size, calls, mu, basePath,
                   sizeMax, evict, evictOpen, evictLast, now, files, tmps,
                   cs, out, ev, panicked, ncalls>>

\* LRU.Get(key)
lruGet ==
    /\ lru.ops < MaxLruOps
    /\ \E k \in LruKeys :
        /\ index' = LRUGet(index, k)
        /\ lru' = IF LRUHas(index, k)
                  THEN [ops |-> lru.ops + 1,
                        last |-> [lru.last EXCEPT ![k] = lru.ops + 1],
                        ret |-> [op |-> "get", key |-> k,
                                 sum |-> LRUValue(index, k).sum,
                                 size |-> LRUValue(index, k).size,
                                 ok |-> TRUE]]
                  ELSE [ops |-> lru.ops + 1,
                        last |-> lru.last,
                        ret |-> [op |-> "get", key |-> k, sum |-> 0,
                                 size |-> 0, ok |-> FALSE]]
    /\ UNCHANGED <<env, opts, state, indexNil, size, calls, mu, basePath,
                   sizeMax, evict, evictOpen, evictLast, now, files, tmps,
                   cs, out, ev, panicked, ncalls>>

\* LRU.RemoveUnused()
lruRemoveUnused ==
    /\ lru.ops < MaxLruOps
    /\ IF index = <<>>
       THEN /\ index' = index
            /\ lru' = [ops |-> lru.ops + 1,
                       last |-> lru.last,
                       ret |-> [op |-> "remove", key |-> "", sum |-> 0,
                                size |-> 0, ok |-> FALSE]]
       ELSE /\ index' = LRURemoveUnused(index)
            /\ lru' = [ops |-> lru.ops + 1,
                       last |-> [lru.last EXCEPT ![LRUBack(index).k] = 0],
                       ret |-> [op |-> "remove", key |-> LRUBack(index).k,
                                sum |-> LRUBack(index).sum,
                                size |-> LRUBack(index).size,
                                ok |-> TRUE]]
    /\ UNCHANGED <<env, opts, state, indexNil, size, calls, mu, basePath,
                   sizeMax, evict, evictOpen, evictLast, now, files, tmps,
                   cs, out, ev, panicked, ncalls>>

NextLRU ==
    \/ lruSet
    \/ lruGet
    \/ lruRemoveUnused

\* --------------------------------------------------------- specifications

CallerStep(c) ==
    \/ GetOrLoadInited(c)
    \/ GetOrLoadInit(c)
    \/ Lookup(c)
    \/ WaitFailed(c)
    \/ WaitDone(c)
    \/ openFile(c)
    \/ Load(c)
    \/ LoadFailed(c)
    \/ teeRead(c)
    \/ teeClose(c)
    \/ addFileLockedErr(c)
    \/ addFileLocked(c)
    \/ rename(c)
    \/ teeDone(c)
    \/ fileRead(c)
    \/ fileClose(c)

EvictStep ==
    \/ evictRecv
    \/ evictionLock
    \/ evictionStep
    \/ evictionUnlock

\* callers, the eviction routine and the clock
Next ==
    \/ \E c \in Callers : CallerStep(c)
    \/ EvictStep
    \/ Tick

\* callers only
NextCallers == \E c \in Callers : CallerStep(c)

\* the same, with damage to the stored files
NextCorrupt ==
    \/ Next
    \/ Corrupt

\* the same, with a PurgeAndClose at any time
NextPurge ==
    \/ Next
    \/ \E c \in Callers : GetOrLoadClosed(c)
    \/ \E c \in Callers : GetOrLoadNotInited(c)
    \/ \E c \in Callers : initDone(c)
    \/ \E c \in Callers : initOk(c)
    \/ \E c \in Callers : initFailed(c)
    \/ evictExit
    \/ PurgeAndClose
    \/ PurgeAndCloseUninit
    \/ PurgeAndCloseClosed

Spec == Init /\ [][Next]_vars

SpecOneKey == InitOneKey /\ [][NextCallers]_vars

\* a call that has begun goes on: its caller reads or closes the stream, the
\* scheduler runs the goroutine
CallerProgress(c) ==
    \/ Lookup(c)
    \/ WaitFailed(c)
    \/ WaitDone(c)
    \/ openFile(c)
    \/ Load(c)
    \/ LoadFailed(c)
    \/ teeClose(c)
    \/ addFileLockedErr(c)
    \/ addFileLocked(c)
    \/ rename(c)
    \/ teeDone(c)
    \/ fileClose(c)

\* a budget, and fair scheduling of the eviction routine and of the callers
FairSpec ==
    /\ InitBudget
    /\ [][Next]_vars
    /\ WF_vars(EvictStep)
    /\ \A c \in Callers : WF_vars(CallerProgress(c))

SpecTee == InitTee /\ [][NextCallers]_vars

SpecCorrupt == Init /\ [][NextCorrupt]_vars

SpecPurge == InitPurge /\ [][NextPurge]_vars

\* callers, the eviction routine and the clock, with init() as a step of
\* its own that can fail, and no PurgeAndClose
NextInit ==
    \/ Next
    \/ \E c \in Callers : GetOrLoadNotInited(c)
    \/ \E c \in Callers : initDone(c)
    \/ \E c \in Callers : initOk(c)
    \/ \E c \in Callers : initFailed(c)

SpecInit == InitPurge /\ [][NextInit]_vars

\* callers and the eviction routine, the clock stands still
NextEvict ==
    \/ \E c \in Callers : CallerStep(c)
    \/ EvictStep

SpecEvict == InitEvict /\ [][NextEvict]_vars

SpecOpen == InitOpen /\ [][NextCallers]_vars

SpecWrite == InitWrite /\ [][NextCallers]_vars

SpecLRU == InitLRU /\ [][NextLRU]_vars

\* ---------------------------------------------------------------- claims

\* C1: a caller that joined the in-flight load of a leader whose stream was
\* read to its declared size and closed, so that the entry of the key was
\* set, does not call the loader and is served from the cache file
C1_WaitersServedFromCache ==
    \A w \in Callers :
        (out[w].done /\ out[w].waited /\ out[w].ler \in {"nil", "EEXIST"})
            => (out[w].loads = 0 /\ out[w].kind = "file")

\* the callers whose caching load for a key is in flight: they hold a
\* diskTee whose Close has not yet finished addFileLocked
Tees(key) == {c \in Callers : cs[c].key = key /\
                 cs[c].pc \in {"diskTee", "addFileLocked", "rename"}}

\* C2: at any time and for every key at most one caller holds an unclosed
\* diskTee (one in-flight caching load per key)
C2_OneTeePerKey == \A key \in Keys : Cardinality(Tees(key)) <= 1

\* C3: without eviction and without damage to the files, a call for a key
\* that was in the index when the call began does not call the loader, and
\* its stream read to the end yields the bytes recorded for the key
C3_Idempotent ==
    \A c \in Callers :
        (out[c].done /\ out[c].cached)
            => /\ out[c].loads = 0
               /\ out[c].eof => (LRUHas(index, out[c].key) /\
                     hashSum(out[c].bytes) = LRUValue(index, out[c].key).sum)

\* C4: a stream read to the end yields the bytes published under the
\* checksum of the key's entry (a diskFile) or the bytes of the loader
\* called for that call (a diskTee, the loader's own stream)
C4_StreamBytes ==
    \A c \in Callers :
        (out[c].done /\ out[c].eof)
            => /\ out[c].kind = "file" => hashSum(out[c].bytes) = out[c].sum
               /\ out[c].kind \in {"tee", "raw"} => out[c].bytes = out[c].want

\* C5: a waiter is released only by the step that ends the Close of its
\* leader's diskTee (or the leader's failed load), it then reads the outcome
\* of that Close's addFileLocked, and the end of the Close releases it
C5_ReleasedAtFinalize ==
    [][\A w \in Callers :
         (cs[w].pc = "wait" /\ ~cs[w].rel) =>
            /\ cs'[w].pc = "wait"
            /\ cs'[w].rel =>
                 \E l \in Callers :
                    /\ cs[l].id = cs[w].waitOn
                    /\ cs'[l].pc = "idle"
                    /\ \/ cs[l].pc = "teeDone" /\ cs'[w].er = cs[l].errw
                       \/ cs[l].pc = "failed" /\ cs'[w].er = "load"
            /\ \A l \in Callers :
                 (cs[l].id = cs[w].waitOn /\ cs[l].pc = "teeDone"
                    /\ cs'[l].pc = "idle") => cs'[w].rel]_vars

\* C5, its case: a waiter has been released by the Close of a diskTee that
\* published
C5_Witness ==
    \E w \in Callers :
        /\ cs[w].pc = "wait" /\ cs[w].rel /\ cs[w].er = "nil"
        /\ LRUHas(index, cs[w].key)

\* the call of caller l has returned and was the leader of its key
ReturnedLeader(l) == out[l].done /\ out[l].lead /\ cs[l].pc = "idle"

\* the loadCall of a returned leader is gone: not in c.calls, no waiter on it
Released(l) ==
    /\ calls[out[l].key] # out[l].id
    /\ \A w \in Callers :
         ~(cs[w].pc = "wait" /\ cs[w].waitOn = out[l].id /\ ~cs[w].rel)

\* C6: when the leader's loader returned an error or a negative size, the
\* loadCall is removed and no waiter stays blocked on it
C6_ReleasedOnLoadError ==
    \A l \in Callers :
        (ReturnedLeader(l) /\ out[l].loads = 1
           /\ (out[l].kind = "err" \/ out[l].dsize < 0)) => Released(l)

\* C7: when the leader's load was refused by the admission control, the
\* loadCall is removed and no waiter stays blocked on it
C7_ReleasedOnAdmissionSkip ==
    \A l \in Callers :
        (ReturnedLeader(l) /\ out[l].kind = "raw" /\ out[l].dsize >= 0)
            => Released(l)

\* C8: with a budget, a load whose declared size is more than a tenth of
\* the budget is not wrapped in a diskTee
C8_AdmissionTenth ==
    \A c \in Callers :
        (sizeMax > 0 /\ out[c].kind = "tee") => out[c].dsize * 10 <= sizeMax

RECURSIVE SumSizes(_)
SumSizes(l) == IF l = <<>> THEN 0 ELSE Head(l).size + SumSizes(Tail(l))

\* C9: when the mutex is free, the size counter is the sum of the sizes of
\* the entries of the index
C9_SizeIsSumOfEntries ==
    (state = inited /\ mu = 0) => size = SumSizes(index)

\* C10: with a budget, a tracked size above the budget is eventually
\* brought back to at most the budget
C10_EventuallyWithinBudget ==
    (sizeMax > 0 /\ size > sizeMax) ~> (size <= sizeMax)

\* C11: a size received by the eviction routine starts a pass exactly when
\* the time elapsed since the last pass is at least the minimum period or
\* the size is at least the emergency ratio times the budget
C11_PassDecision ==
    [][(ev.pc = "recv" /\ evict # <<>> /\ evict' = <<>>) =>
          ((ev'.pc = "eviction") <=>
              \/ now - evictLast >= evictionPeriodMin
              \/ Head(evict) * 10 >= evictionEmergencyRatio * sizeMax)]_vars

\* C12: a diskFile whose content does not hash to the entry's checksum, read
\* to the end, returns errCorruptedCache at Close and its file is removed; a
\* call that finds the entry but not the file calls the loader, and its
\* stream read to the end yields the loader's bytes and closes without error
C12_CorruptionReload ==
    /\ [][\A c \in Callers :
            /\ (/\ cs[c].pc = "diskFile" /\ cs'[c].pc = "idle"
                /\ cs[c].n = Len(cs[c].src)
                /\ hashSum(cs[c].src) # cs[c].sum)
                   => /\ out'[c].err = "errCorruptedCache"
                      /\ getFilename(cs[c].fbase, cs[c].sum) \notin DOMAIN files'
            /\ (/\ cs[c].pc = "openFile" /\ cs'[c].pc # "openFile"
                /\ getFilename(basePath, cs[c].sum) \notin DOMAIN files)
                   => cs'[c].pc = "load"
            /\ (cs[c].pc = "load" /\ cs[c].cacheHit /\ cs'[c] # cs[c])
                   => /\ out'[c].loads = out[c].loads + 1
                      /\ out'[c].kind \in {"tee", "raw", "err"}
                      /\ cs'[c].pc = "diskTee" => cs'[c].src = out'[c].want]_vars
    /\ [](\A c \in Callers :
            (out[c].done /\ out[c].kind = "tee" /\ out[c].eof)
                => (out[c].bytes = out[c].want /\ out[c].err = "nil"))

\* C12, its case: a reader read a damaged file to the end and got
\* errCorruptedCache, and a later call for the key, whose entry was still in
\* the index, got the loader's bytes through a diskTee
C12_Witness ==
    \E c, d \in Callers :
        /\ out[d].err = "errCorruptedCache" /\ out[d].eof
        /\ out[d].bytes # <<>>
        /\ out[c].key = out[d].key /\ out[c].id > out[d].id
        /\ out[c].cached /\ out[c].kind = "tee" /\ out[c].done /\ out[c].eof
        /\ out[c].bytes = out[c].want /\ out[c].err = "nil"
        /\ out[c].errw = "nil"

\* the call of caller c returned the result of a direct call of the loader
DirectResult(c) ==
    /\ out'[c].loads = 1 /\ out'[c].done
    /\ out'[c].kind \in {"raw", "err"}
    /\ out'[c].bytes = out'[c].want
    /\ out'[c].err = IF out'[c].kind = "err" THEN "load" ELSE "nil"

\* C13: a GetOrLoad that begins on a closed cache calls the loader once,
\* returns its result as it is and changes nothing of the cache
C13_ClosedPassThrough ==
    [][\A c \in Callers :
         /\ (/\ state = closed /\ cs[c].pc = "idle"
             /\ ncalls' = ncalls + 1 /\ out'[c].id = ncalls + 1)
               => /\ cs'[c].pc \in {"idle", "init"}
                  /\ cs'[c].pc = "idle" => DirectResult(c)
                  /\ cacheVars' = cacheVars
         /\ (state = closed /\ cs[c].pc = "init" /\ cs'[c] # cs[c])
               => /\ cs'[c].pc = "idle"
                  /\ DirectResult(c)
                  /\ cacheVars' = cacheVars]_vars

\* C13, its case: after a PurgeAndClose of an initialized cache a call got
\* the loader's stream
C13_Witness ==
    /\ state = closed /\ indexNil
    /\ \E c \in Callers :
         /\ out[c].id = ncalls /\ out[c].done /\ out[c].kind = "raw"
         /\ out[c].loads = 1 /\ ~out[c].lead /\ ~out[c].waited
         /\ ~out[c].cached /\ cs[c].pc = "idle"

\* C14: c.state moves from 0 to inited or closed and from inited to closed
\* only; what init() set is not set again while the cache is inited, and a
\* closed cache stays closed with its fields as PurgeAndClose left them
C14_Lifecycle ==
    [][/\ state' # state =>
            \/ state = 0 /\ state' \in {inited, closed}
            \/ state = inited /\ state' = closed
       /\ (state = inited /\ state' = inited) =>
            /\ basePath' = basePath
            /\ sizeMax' = sizeMax
            /\ evictOpen' = evictOpen
            /\ evictLast' # evictLast => ev.pc = "evicting"
            /\ ev.pc # "off" => ev'.pc # "off"
       /\ state = closed =>
            /\ basePath' = basePath
            /\ indexNil' = indexNil
            /\ evictOpen' = evictOpen]_vars

\* C14, its case: a first call that found the cache not inited is in init()
\* after another first call has initialized it
C14_Witness ==
    /\ state = inited
    /\ \E c, d \in Callers :
         /\ c # d
         /\ cs[c].pc = "init"
         /\ out[d].id = 1 /\ out[c].id = 2

\* C15: when init() fails the cache is closed, the failing call returns the
\* loader's result, no eviction routine is started and nothing is created;
\* from then on every call is a direct call of the loader
C15_InitFailure ==
    /\ [][\A c \in Callers :
            (cs[c].pc = "init" /\ state = 0 /\ cs'[c].pc = "idle")
                => /\ state' = closed
                   /\ DirectResult(c)
                   /\ ev' = ev /\ evictOpen' = evictOpen
                   /\ basePath' = basePath /\ files' = files]_vars
    /\ [](state = closed =>
            /\ ev.pc = "off" /\ evictOpen = "nil"
            /\ index = <<>> /\ files = <<>> /\ size = 0
            /\ \A c \in Callers :
                 /\ cs[c].pc \in {"idle", "init"}
                 /\ (out[c].id > 0 /\ cs[c].pc = "idle") =>
                       /\ out[c].loads = 1 /\ out[c].done
                       /\ out[c].kind \in {"raw", "err"}
                       /\ out[c].bytes = out[c].want)

\* C15, its case: init() failed in the first call and a later call has
\* returned the loader's stream
C15_Witness ==
    /\ state = closed
    /\ \E c, d \in Callers :
         /\ out[c].id = 1 /\ out[c].done /\ out[c].loads = 1
         /\ out[d].id = 2 /\ out[d].done /\ out[d].loads = 1
         /\ out[d].kind = "raw"

\* C16: Close of a diskTee that counted a number of bytes other than the
\* declared size fails with errSizeNotMatch and publishes nothing: the
\* index, the size and the content files are unchanged, the loadCall of the
\* key is deleted and the temporary file is removed
C16_SizeMismatch ==
    [][\A c \in Callers :
         /\ (cs[c].pc = "diskTee" /\ cs'[c].pc = "addFileLocked")
               => (cs'[c].errw = "errSizeNotMatch" <=> cs[c].n # cs[c].dsize)
         /\ (/\ cs[c].errw = "errSizeNotMatch"
             /\ cs[c].pc \in {"addFileLocked", "teeDone"}
             /\ cs'[c] # cs[c])
               => /\ index' = index /\ size' = size /\ files' = files
                  /\ cs[c].pc = "addFileLocked" =>
                        (cs'[c].pc = "teeDone" /\ calls'[cs[c].key] = 0)
                  /\ cs[c].pc = "teeDone" =>
                        /\ cs'[c].pc = "idle"
                        /\ tmps'[c] = NoTmp
                        /\ out'[c].errw = "errSizeNotMatch"]_vars

\* C16, its case: after a Close that failed with errSizeNotMatch, a later
\* call for the same key, still absent from the index, holds a new diskTee
C16_Witness ==
    \E c, d \in Callers :
        /\ out[d].done /\ out[d].errw = "errSizeNotMatch"
        /\ out[c].key = out[d].key /\ out[c].id > out[d].id
        /\ ~LRUHas(index, out[c].key)
        /\ cs[c].pc = "diskTee" /\ out[c].lead /\ out[c].loads = 1

\* C17: Close of a diskTee returns the error of the Close of the loader's
\* stream and nothing else, whatever the outcome of the publish
C17_CloseReturnsSourceError ==
    [][\A c \in Callers :
         (cs[c].pc = "teeDone" /\ cs'[c].pc = "idle")
             => out'[c].err = cs[c].errc]_vars

\* C17, its case: the publish failed with errSizeNotMatch, the loader's
\* stream closed without error, and Close returned no error
C17_Witness ==
    \E c \in Callers :
        /\ out[c].done /\ out[c].kind = "tee"
        /\ out[c].errw = "errSizeNotMatch" /\ out[c].err = "nil"

\* C18, as stated: a publish that failed with errSizeNotMatch is the error
\* returned by Close of the diskTee
C18_FinalizeErrorReturned ==
    \A c \in Callers :
        (out[c].done /\ out[c].kind = "tee"
           /\ out[c].errw = "errSizeNotMatch")
            => out[c].err = "errSizeNotMatch"

\* C18, amended: a publish that failed is not the result of Close, which is
\* the error of the Close of the loader's stream; the failure is stored in
\* the loadCall and read by the waiters, which then call the loader directly
C18_FinalizeErrorToWaiters ==
    /\ [][\A c \in Callers :
            (cs[c].pc = "teeDone" /\ cs'[c].pc = "idle" /\ cs[c].errw # "nil")
                => /\ out'[c].err \in {"nil", "close"}
                   /\ out'[c].errw = cs[c].errw
                   /\ \A w \in Callers :
                        (cs[c].lead /\ cs[w].pc = "wait"
                           /\ cs[w].waitOn = cs[c].id)
                            => (cs'[w].rel /\ cs'[w].er = cs[c].errw)]_vars
    /\ [](\A w \in Callers :
            (out[w].done /\ out[w].waited /\ out[w].ler # "nil")
                => (out[w].loads = 1 /\ out[w].kind \in {"raw", "err"}))

\* C18, its case: Close of the leader's diskTee returned no error after a
\* publish that failed with errSizeNotMatch, and a waiter that read that
\* error got the loader's stream
C18_Witness ==
    \E c, w \in Callers :
        /\ out[c].done /\ out[c].kind = "tee" /\ out[c].lead
        /\ out[c].errw = "errSizeNotMatch" /\ out[c].err = "nil"
        /\ out[w].done /\ out[w].waited /\ out[w].key = out[c].key
        /\ out[w].ler = "errSizeNotMatch" /\ out[w].kind = "raw"

\* C19: a call whose loader returned an error returns that error and no
\* stream; the step changes neither the index, the size nor any file, and
\* once the call has returned its loadCall is gone, so that a later call for
\* the key calls the loader again
C19_LoaderError ==
    /\ [][\A c \in Callers :
            (out[c].kind # "err" /\ out'[c].kind = "err")
                => /\ out'[c].err = "load" /\ out'[c].bytes = <<>>
                   /\ out'[c].loads = out[c].loads + 1
                   /\ index' = index /\ size' = size
                   /\ files' = files /\ tmps' = tmps]_vars
    /\ [](\A l \in Callers :
            (ReturnedLeader(l) /\ out[l].kind = "err") => Released(l))

\* C19, its case: the loader of a leader returned an error, and a later call
\* for the same key, not in the index, has called the loader again
C19_Witness ==
    \E c, d \in Callers :
        /\ out[d].done /\ out[d].lead /\ out[d].kind = "err"
        /\ out[c].key = out[d].key /\ out[c].id > out[d].id
        /\ ~LRUHas(index, out[c].key)
        /\ out[c].lead /\ out[c].loads = 1

\* C20: a publish that finds the canonical path of its checksum present
\* ends without error: the waiters of the key are released with a nil
\* call.er, none reads the error of the rename
C20_ExistingPathIsSuccess ==
    \A w \in Callers :
        (cs[w].pc = "wait" /\ cs[w].rel) => cs[w].er # "EEXIST"

\* C21: the end of a tee's Close never waits for the eviction channel: it
\* can always be taken, a full buffer is left as it is, and a size is put in
\* the buffer only when a budget is configured and the total after the
\* publish exceeds it
C21_NonBlockingSignal ==
    /\ [](\A c \in Callers :
            (cs[c].pc = "teeDone" /\ ~panicked) => ENABLED teeDone(c))
    /\ [][\A c \in Callers :
            (cs[c].pc = "teeDone" /\ cs'[c].pc = "idle")
                => /\ out'[c].done
                   /\ evict # <<>> => evict' = evict
                   /\ evict' # evict => /\ sizeMax > 0
                                        /\ cs[c].total > sizeMax
                                        /\ evict' = <<cs[c].total>>]_vars

\* the routine has received nothing, the buffer holds the total of a first
\* publish over the budget, and a later publish over the budget has completed
C21_Witness ==
    /\ ev.sz = 0
    /\ evict # <<>>
    /\ Head(evict) < size
    /\ \A c \in Callers : cs[c].pc = "idle" /\ out[c].done

\* C22: nobody changes a file while holding the mutex: a caller that holds
\* it (its GetOrLoad, the publish of its tee) and takes a step, and the
\* eviction routine that holds it and takes a step, leave the content files
\* and the temporary files as they are
C22_NoLockDuringFileOps ==
    [][/\ \A c \in Callers :
            (mu = c /\ cs'[c] # cs[c]) => (files' = files /\ tmps' = tmps)
       /\ (mu = EvId /\ (ev' # ev \/ index' # index)) => files' = files]_vars

\* C23: once PurgeAndClose has closed the cache, the eviction routine is
\* never inside a pass (holding the mutex in eviction())
C23_NoEvictionAfterClose ==
    state = closed => ev.pc \notin {"evicting", "break"}

\* C24: a GetOrLoad call invokes the loader at most once, and the loader is
\* invoked only by a step of a caller that begins its GetOrLoad call or is
\* inside it (not by a stream that was returned, not by the eviction routine,
\* not by PurgeAndClose)
C24_LoaderAtMostOnce ==
    /\ [](\A c \in Callers : out[c].loads <= 1)
    /\ [][\A c \in Callers :
            out'[c].loads # out[c].loads
                => \/ ncalls' = ncalls + 1
                   \/ /\ cs[c].pc \in {"init", "getOrLoad", "wait",
                                       "openFile", "load"}
                      /\ out'[c].loads = out[c].loads + 1]_vars

\* a waiter whose joined load failed has returned the result of its one
\* call of the loader
C24_Witness ==
    \E c \in Callers :
        /\ out[c].done /\ out[c].waited /\ out[c].ler # "nil"
        /\ out[c].loads = 1

\* C25: the loadCall registered for a key leaves c.calls only by a step of
\* the caller that registered it (its leader), never by a step of another
\* caller
C25_RecordRemovedByLeader ==
    [][\A k \in Keys :
          (calls[k] # 0 /\ calls'[k] # calls[k])
              => \E c \in Callers : /\ cs[c].lead
                                    /\ cs[c].id = calls[k]
                                    /\ cs'[c] # cs[c]]_vars

\* C26: when addFileLocked has set the entry of a key (the rename succeeded
\* or found the path present), the index holds for the key the checksum and
\* the size that were set
C26_SetReplacesValue ==
    [][\A c \in Callers :
          (/\ cs[c].pc \in {"addFileLocked", "rename"}
           /\ cs'[c].pc = "teeDone"
           /\ cs'[c].errw \in {"nil", "EEXIST"})
              => /\ LRUHas(index', cs[c].key)
                 /\ LRUValue(index', cs[c].key).sum = cs[c].sum
                 /\ LRUValue(index', cs[c].key).size = cs[c].dsize]_vars

\* C27: a released waiter whose loadCall carries an error, or that finds no
\* entry for its key, calls the loader once and returns its result at once;
\* c.calls, the index, the size and the files are left as they are.  A
\* released waiter that finds the entry goes on to open its file.
C27_WaiterFallback ==
    [][\A c \in Callers :
          (cs[c].pc = "wait" /\ cs'[c].pc # "wait")
              => IF cs[c].er # "nil" \/ ~LRUHas(index, cs[c].key)
                 THEN /\ cs'[c].pc = "idle"
                      /\ out'[c].done
                      /\ out'[c].loads = 1
                      /\ out'[c].kind \in {"raw", "err"}
                      /\ out'[c].bytes = out'[c].want
                      /\ calls' = calls
                      /\ index' = index
                      /\ size' = size
                      /\ files' = files
                      /\ tmps' = tmps
                 ELSE cs'[c].pc = "openFile"]_vars

\* a waiter was released without error, found no entry (the eviction removed
\* it) and returned the loader's stream
C27_Witness ==
    \E c \in Callers :
        /\ out[c].done /\ out[c].waited /\ out[c].miss
        /\ out[c].kind = "raw" /\ out[c].loads = 1

\* C28: a cache hit ends in one of three ways.  The file is there and is
\* returned.  The file is not there: the call goes on to the new load, which
\* returns a tee over a temporary file when the loader succeeds, and whose
\* publish writes the loaded bytes under their checksum and leaves an entry
\* for the key, the entry of that file when the checksum is the one it had.
\* os.Open fails otherwise: the loader is called once, its result is
\* returned, and c.calls, the index, the size and the files are unchanged.
C28_OpenFailure ==
    [][\A c \in Callers :
          /\ (cs[c].pc = "openFile" /\ cs'[c] # cs[c])
                => /\ cs'[c].pc \in {"diskFile", "load", "idle"}
                   /\ cs'[c].pc = "diskFile"
                        => FileExists(getFilename(basePath, cs[c].sum))
                   /\ cs'[c].pc = "load"
                        => /\ ~FileExists(getFilename(basePath, cs[c].sum))
                           /\ out'[c].loads = 0
                   /\ cs'[c].pc = "idle"
                        => /\ out'[c].done
                           /\ out'[c].loads = 1
                           /\ out'[c].kind \in {"raw", "err"}
                           /\ out'[c].bytes = out'[c].want
                           /\ calls' = calls /\ index' = index
                           /\ size' = size /\ files' = files
                           /\ tmps' = tmps
          /\ (cs[c].pc = "load" /\ cs[c].cacheHit /\ out'[c].kind = "tee")
                => (cs'[c].pc = "diskTee" /\ tmps'[c] # NoTmp)
          /\ (cs[c].pc = "rename" /\ cs[c].cacheHit
              /\ cs'[c].pc = "teeDone" /\ cs'[c].errw = "nil")
                => /\ FileExists(getFilename(basePath, cs[c].sum))'
                   /\ files'[getFilename(basePath, cs[c].sum)] = out[c].bytes
                   /\ LRUHas(index', cs[c].key)
                   /\ (LRUHas(index, cs[c].key)
                       /\ LRUValue(index, cs[c].key).sum = cs[c].sum)
                        => LRUValue(index', cs[c].key).sum = cs[c].sum]_vars

\* one call found the file of its entry missing, loaded and published it
\* again; another call hit the entry, could not open the file and returned
\* the loader's stream, the file being still there
C28_Witness ==
    \E c, d \in Callers :
        /\ out[c].done /\ out[c].cached /\ ~out[c].waited
        /\ out[c].kind = "tee" /\ out[c].errw = "nil"
        /\ out[d].done /\ out[d].cached /\ ~out[d].waited
        /\ out[d].kind = "raw" /\ out[d].dsize >= 0
        /\ LRUHas(index, "k1")
        /\ FileExists(getFilename(basePath, LRUValue(index, "k1").sum))

\* C29: the eviction routine changes the index, the files and the size only
\* inside a pass and while the size exceeds the budget; a turn whose
\* os.Remove does not fail removes the back entry, leaves no file at its
\* path and subtracts its recorded size; a pass that no failure interrupted
\* ends with the size within the budget or with an empty index
C29_EvictionPass ==
    [][/\ (cs' = cs /\ (index' # index \/ size' # size \/ files' # files))
            => (/\ ev.pc = "evicting"
                /\ mu = EvId
                /\ size > sizeMax
                /\ index # <<>>
                /\ index' = LRURemoveUnused(index)
                /\ (ev'.pc # "break")
                      => (/\ getFilename(basePath, LRUBack(index).sum)
                                \notin DOMAIN files'
                          /\ size' = size - LRUBack(index).size))
       /\ (ev.pc = "evicting" /\ ev'.pc = "recv")
            => (size <= sizeMax \/ index = <<>>)]_vars

\* a pass has removed an entry and its file and has ended within the budget
C29_Witness ==
    /\ ev.pc = "recv" /\ ev.sz > sizeMax
    /\ mu = 0
    /\ size <= sizeMax
    /\ size < ev.sz
    /\ \A c \in Callers : cs[c].pc = "idle" /\ out[c].done

\* C30: a turn of the eviction loop whose os.Remove fails (with another
\* error than "does not exist") leaves the size and the files as they are
\* and ends the pass at once; a turn whose file is already absent subtracts
\* the recorded size of the entry and goes on
C30_RemoveFailure ==
    [][/\ (ev.pc = "evicting" /\ ev'.pc = "break")
            => (size' = size /\ files' = files)
       /\ (ev.pc = "break" /\ cs' = cs)
            => (/\ ev'.pc \in {"break", "recv"}
                /\ index' = index /\ size' = size /\ files' = files
                /\ (ev'.pc = "recv" => mu' = 0))
       /\ (/\ ev.pc = "evicting" /\ ev'.pc = "evicting"
           /\ index' # index
           /\ ~FileExists(getFilename(basePath, LRUBack(index).sum)))
            => size' = size - LRUBack(index).size]_vars

\* a pass has ended on a failed os.Remove: the entry is gone from the index,
\* the size still counts it
C30_Witness ==
    /\ ev.pc = "recv" /\ ev.sz > sizeMax
    /\ mu = 0
    /\ index = <<>>
    /\ size = ev.sz
    /\ files # <<>>
    /\ \A c \in Callers : cs[c].pc = "idle" /\ out[c].done

\* C31: RemoveUnused on an empty index removes nothing and says so;
\* otherwise it removes and returns, with its value, the present key whose
\* latest Get or Set is the oldest, and no other key.  A Get of a present
\* key returns its value, a Get of an absent key changes nothing, a Set
\* leaves the key present.
C31_LeastRecentlyUsed ==
    [][/\ lru'.ret.op = "remove"
            => IF index = <<>>
               THEN ~lru'.ret.ok /\ index' = index
               ELSE /\ lru'.ret.ok
                    /\ LRUHas(index, lru'.ret.key)
                    /\ \A k \in LruKeys :
                         LRUHas(index, k)
                            => lru.last[lru'.ret.key] <= lru.last[k]
                    /\ lru'.ret.sum = LRUValue(index, lru'.ret.key).sum
                    /\ lru'.ret.size = LRUValue(index, lru'.ret.key).size
                    /\ \A k \in LruKeys :
                         LRUHas(index', k)
                            <=> (LRUHas(index, k) /\ k # lru'.ret.key)
       /\ lru'.ret.op = "get"
            => IF LRUHas(index, lru'.ret.key)
               THEN /\ lru'.ret.ok
                    /\ lru'.ret.sum = LRUValue(index, lru'.ret.key).sum
                    /\ \A k \in LruKeys : LRUHas(index', k) <=> LRUHas(index, k)
               ELSE ~lru'.ret.ok /\ index' = index
       /\ lru'.ret.op = "set"
            => \A k \in LruKeys :
                 LRUHas(index', k) <=> (LRUHas(index, k) \/ k = lru'.ret.key)]_vars

\* k1 then k2 were set, k1 was used again, and RemoveUnused returned k2
C31_Witness ==
    /\ lru.ops = 4
    /\ lru.ret.op = "remove" /\ lru.ret.ok /\ lru.ret.key = "k2"
    /\ lru.last["k1"] = 3
    /\ Len(index) = 1 /\ index[1].k = "k1"

\* C32: a read of a tee hands the byte of the loader's stream to the caller
\* whether or not the write to the temporary file succeeds; once a write
\* has failed or was short the error stays recorded and no later read
\* writes to the file; the Close then enters addFileLocked with that error,
\* which publishes nothing
C32_WriteErrorOnRead ==
    [][\A c \in Callers :
          /\ (cs[c].pc = "diskTee" /\ cs'[c].pc = "diskTee"
              /\ cs'[c] # cs[c])
                => /\ out'[c].bytes
                        = Append(out[c].bytes, cs[c].src[cs[c].n + 1])
                   /\ cs[c].e # "nil"
                        => (cs'[c].e = cs[c].e /\ tmps' = tmps)
                   /\ cs'[c].e # cs[c].e => tmps' = tmps
          /\ (cs[c].pc = "diskTee" /\ cs[c].e # "nil"
              /\ cs'[c].pc = "addFileLocked")
                => cs'[c].errw = cs[c].e
          /\ (cs[c].pc = "addFileLocked" /\ cs[c].e # "nil"
              /\ cs'[c] # cs[c])
                => /\ cs'[c].pc = "teeDone"
                   /\ cs'[c].errw = cs[c].e
                   /\ files' = files /\ index' = index /\ size' = size]_vars

\* a tee whose second write failed handed every byte of the loader's stream
\* to its caller, and its Close published nothing
C32_Witness ==
    \E c \in Callers :
        /\ out[c].done /\ out[c].kind = "tee"
        /\ out[c].errw \in {"errWrite", "ErrShortWrite"}
        /\ out[c].eof /\ out[c].bytes = <<1, 2>>
        /\ out[c].dsize = 1
        /\ index = <<>> /\ files = <<>>

\* C33: a caller that is not reading or closing a tee has no temporary
\* file; a publish that succeeds moves the temporary file, with its bytes,
\* to the canonical path of their checksum
C33_TempFileGone ==
    /\ [](\A c \in Callers :
            cs[c].pc \notin {"diskTee", "addFileLocked", "rename", "teeDone"}
                => tmps[c] = NoTmp)
    /\ [][\A c \in Callers :
            (cs[c].pc = "rename" /\ cs'[c].pc = "teeDone"
             /\ cs'[c].errw = "nil")
                => /\ tmps'[c] = NoTmp
                   /\ getFilename(basePath, cs[c].sum) \in DOMAIN files'
                   /\ files'[getFilename(basePath, cs[c].sum)] = tmps[c].data]_vars

\* one tee was closed after a successful publish and another after it
\* found the canonical path present: neither has a temporary file
C33_Witness ==
    \E c, d \in Callers :
        /\ cs[c].pc = "idle" /\ out[c].done /\ out[c].kind = "tee"
        /\ out[c].errw = "EEXIST"
        /\ cs[d].pc = "idle" /\ out[d].done /\ out[d].kind = "tee"
        /\ out[d].errw = "nil"
        /\ tmps[c] = NoTmp /\ tmps[d] = NoTmp

\* C34: no goroutine panics on the discarded index, and no file is created
\* outside of the base directory once PurgeAndClose has emptied c.basePath
C34_NoIndexAccessAfterPurge ==
    /\ ~panicked
    /\ \A p \in DOMAIN files : p[1] # ""

\* C35: the Close of a diskFile opened on a file whose content has the
\* checksum of the entry returns no error and leaves the files as they are,
\* however much of the file was read
C35_CloseOfIntactFile ==
    [][\A c \in Callers :
          (/\ cs[c].pc = "diskFile"
           /\ cs'[c].pc = "idle"
           /\ hashSum(cs[c].src) = cs[c].sum)
              => (out'[c].err = "nil" /\ files' = files)]_vars

\* C36: the file that a cache hit opens holds the bytes of the entry's
\* checksum, and the Close of a diskFile removes no file whose bytes have
\* the checksum of its path
C36_OnlyPublishedContent ==
    [][\A c \in Callers :
          /\ (cs[c].pc = "openFile" /\ cs'[c].pc = "diskFile")
                => hashSum(cs'[c].src) = cs[c].sum
          /\ (/\ cs[c].pc = "diskFile"
              /\ cs'[c].pc = "idle"
              /\ getFilename(cs[c].fbase, cs[c].sum) \in DOMAIN files
              /\ hashSum(files[getFilename(cs[c].fbase, cs[c].sum)])
                    = cs[c].sum
              /\ cs[c].n = Len(cs[c].src))
                => files' = files]_vars

====
